---- MODULE Spec2Model ----
(***************************************************************************)
(* The experiment guide of autobl.steering (guide.py): StoppingCriterion,  *)
(* GPExperimentGuide and XANESExperimentGuide as one state machine.        *)
(* Every public call (build, suggest, update, get_posterior_mean_and_std,   *)
(* stopping_criterion.check) is one atomic action: the guide is            *)
(* single-threaded call-and-return.  A call that raises keeps the          *)
(* assignments it made before the raise.                                   *)
(*                                                                         *)
(* Numbers.  Physical x and y are small integers.  A normalized x is the   *)
(* exact fraction <<x - lo, hi - lo>>, a standardized y is <<y - mean, v>>  *)
(* for (y - mean) / sqrt(v), v the sample variance.  Posterior std values  *)
(* are integers in 0..MaxSigma; weights and the threshold are fixed-point, *)
(* 1.0 is One * One.  The GP regression, the optimizer and scipy's peak    *)
(* search are library code: their results are inputs of the actions (drawn *)
(* with \E).  The posterior is a function of the model: the std a model    *)
(* reports on the grid is fixed when the model is trained or conditioned.  *)
(* Spec explores every configuration with posteriors that are uniform over *)
(* the grid; SpecStd explores every posterior profile under the            *)
(* configurations of the max_uncertainty criterion.                        *)
(***************************************************************************)
EXTENDS Integers, Sequences, FiniteSets, TLC

\* ---------------------------------------------------------------- bounds
MaxData == 6
MaxSuggest == 1
MaxGrid == 2
MaxSigma == 1

\* ------------------------------------------------------ program constants
\* torch.linspace(0, 1, self.guide.data_x.shape[0] * 5)
GridFactor == 5
\* 'initial data should have at least 4 points'
MinProjectionPoints == 4
\* the literal 1 of clip(.., 0, 1) and of (1 - floor_value), in fixed point
One == 2

\* ------------------------------------------------------------ Python None
None == <<>>
Some(v) == <<v>>
Val(o) == o[1]

Min(a, b) == IF a <= b THEN a ELSE b

RECURSIVE SeqSum(_)
SeqSum(s) == IF s = <<>> THEN 0 ELSE Head(s) + SeqSum(Tail(s))

SeqMin(s) == CHOOSE v \in {s[i] : i \in DOMAIN s} : \A i \in DOMAIN s : v <= s[i]
SeqMax(s) == CHOOSE v \in {s[i] : i \in DOMAIN s} : \A i \in DOMAIN s : v >= s[i]

\* ------------------------------------------------------------------ inputs
\* A batch is a sequence of measurement points [x, y] (physical units).
Pt(a, b) == [x |-> a, y |-> b]
Xs(batch) == [i \in DOMAIN batch |-> batch[i].x]
Ys(batch) == [i \in DOMAIN batch |-> batch[i].y]

\* initial training batches: two points, and four points (each with an
\* integral mean and sample variance)
TrainBatch2 == << Pt(0, 1), Pt(4, 3) >>
TrainBatch4 == << Pt(0, 4), Pt(2, 0), Pt(4, 0), Pt(6, 0) >>
TrainBatches == { TrainBatch2, TrainBatch4 }

\* batches of new measurements passed to update
BatchA == << Pt(1, 2) >>
BatchB == << Pt(3, 4) >>
UpdateBatches == { BatchA, BatchA \o BatchB }

\* ----------------------------------------------------------- configuration
\* StoppingCriterionConfig: method, params['threshold'], n_updates_to_begin,
\* n_check_interval
StoppingCriterionConfigs ==
    [ method : {"max_uncertainty", "other"},
      threshold : {One * One},
      n_updates_to_begin : 0..2,
      n_check_interval : 1..2 ]

\* XANESExperimentGuideConfig, the fields the guide reads.  The acquisition
\* function class is described by what the guide asks of it:
\*   analytic   issubclass(cls, botorch.acquisition.AnalyticAcquisitionFunction)
\*   hook       instances have set_weight_func (and the hyperparameter schedule)
\* and the model class by  projected = issubclass(cls, ProjectedSpaceSingleTaskGP).
AnalyticWithHook == [analytic |-> TRUE, hook |-> TRUE]
MonteCarlo == [analytic |-> FALSE, hook |-> FALSE]

\* (acquisition_function_class, num_candidates)
AcquisitionSetups ==
    { << AnalyticWithHook, 1 >>, << AnalyticWithHook, 2 >>, << MonteCarlo, 2 >> }

GuideConfigs(acquisitions, projections, triggers, stoppings) ==
    [ acquisition : acquisitions,
      projected : projections,
      n_updates_create_acqf_weight_func : triggers,
      acqf_weight_func_floor_value : {1},
      acqf_weight_func_post_edge_gain : {1},
      acqf_weight_func_post_edge_offset : {1},
      lower_bounds : {0},
      upper_bounds : {6},
      stopping_criterion_configs : stoppings ]

DefaultStopping ==
    Some([method |-> "max_uncertainty", threshold |-> One * One,
          n_updates_to_begin |-> 1, n_check_interval |-> 2])

\* The configurations explored: every acquisition setup, model class and
\* weighting trigger under one stopping configuration, and every stopping
\* configuration under the weighting-aware setup.
Configs ==
    GuideConfigs(AcquisitionSetups, BOOLEAN, {None, Some(1), Some(2)},
                 {DefaultStopping})
    \cup
    GuideConfigs({<< AnalyticWithHook, 1 >>}, {FALSE}, {Some(1)},
                 {None} \cup {Some(c) : c \in StoppingCriterionConfigs})

\* The configurations of SpecStd: thresholds 1.0 and 1.5, checked at every
\* update count, with and without a weighting function.
StdConfigs ==
    GuideConfigs({<< AnalyticWithHook, 1 >>}, {FALSE}, {None, Some(1)},
                 {Some([method |-> "max_uncertainty", threshold |-> t,
                        n_updates_to_begin |-> 0, n_check_interval |-> 1]) :
                      t \in {One * One, One * One + One}})

\* The configurations of SpecWeight: every floor value (0, 0.5, 1), post-edge
\* gain (0, 1, 2) and post-edge offset (0, 1, 2 peak widths) of the
\* weighting function, built at the first update.
WeightConfigs ==
    { [c EXCEPT !.acqf_weight_func_floor_value = floor,
                !.acqf_weight_func_post_edge_gain = gain,
                !.acqf_weight_func_post_edge_offset = offset] :
          c \in GuideConfigs({<< AnalyticWithHook, 1 >>}, {FALSE}, {Some(1)},
                             {Some([method |-> "max_uncertainty",
                                    threshold |-> One * One,
                                    n_updates_to_begin |-> 1,
                                    n_check_interval |-> 1])}),
          floor \in 0..One, gain \in 0..2, offset \in 0..2 }

\* posterior std on the grid: every profile, and the uniform ones
StdProfiles == [1..MaxGrid -> 0..MaxSigma]
UniformStds == {[g \in 1..MaxGrid |-> l] : l \in 0..MaxSigma}

VARIABLES
    config,                  \* self.config (never assigned after __init__)
    model,                   \* self.model: 0 is None, else an object identity
    heap,                    \* heap[id]: the __dict__ of the live model object id
    acquisition_function,    \* None or Some(object)
    optimizer,               \* None or Some(object)
    data_x, data_y,          \* the accumulated (transformed) record
    input_transform,         \* None or Some(Normalize)
    outcome_transform,       \* None or Some(Standardize)
    n_suggest_calls,
    n_update_calls,
    acqf_weight_func,        \* None or Some(closure)
    feature_projection_func, \* None or Some(closure)
    next_id,                 \* identity given to the next object created
    trained_at,              \* history: rows recorded before the last training
    built,                   \* history: a build call has returned normally
    fit_at,                  \* history: rows recorded before the last build call
    call,                    \* history: the last call, its arguments and outcome
    run                      \* SimulatedScanningExperiment.run: its position,
                             \* arguments, locals and the experiment's counters

\* the attributes of the guide
guide_vars == << config, model, heap, acquisition_function, optimizer, data_x, data_y,
                 input_transform, outcome_transform, n_suggest_calls, n_update_calls,
                 acqf_weight_func, feature_projection_func, next_id,
                 trained_at, built, fit_at, call >>

vars == << guide_vars, run >>

\* -------------------------------------------------------------- transforms
\* Normalize in training mode learns the bounds of the x it is given.
fit_input(xs) == << SeqMin(xs), SeqMax(xs) >>

\* Standardize in training mode learns the mean and the sample standard
\* deviation of the y it is given; the deviation is kept as its square.
fit_outcome(ys) ==
    LET n == Len(ys)
        mean == SeqSum(ys) \div n
        ss == SeqSum([i \in DOMAIN ys |-> (ys[i] - mean) * (ys[i] - mean)])
    IN  << mean, ss \div (n - 1) >>

\* x.double() with no transform: the value itself, as a fraction over 1
Raw(v) == << v, 1 >>

normalize(bounds, x) == << x - bounds[1], bounds[2] - bounds[1] >>
standardize(ms, y) == << y - ms[1], ms[2] >>

\* Normalize.untransform: x * (hi - lo) + lo
unnormalize(bounds, xt) == (xt[1] * (bounds[2] - bounds[1])) \div xt[2] + bounds[1]

\* transform_data that leaves the input transform in train mode: every call
\* refits the bounds to the x it is given
transform_data_refit_input(it, ot, x, y, train) ==
    LET doX == x # None /\ it # None
        doY == y # None /\ ot # None
        it2 == IF ~doX THEN it
               ELSE Some([bounds |-> Some(fit_input(Val(x))), training |-> TRUE])
        ot2 == IF ~doY THEN ot
               ELSE Some([params |-> IF train THEN Some(fit_outcome(Val(y)))
                                     ELSE Val(ot).params,
                          training |-> train])
        xt == IF x = None THEN None
              ELSE IF ~doX THEN Some([i \in DOMAIN Val(x) |-> Raw(Val(x)[i])])
              ELSE Some([i \in DOMAIN Val(x) |->
                            normalize(Val(Val(it2).bounds), Val(x)[i])])
        yt == IF y = None THEN None
              ELSE IF ~doY THEN Some([i \in DOMAIN Val(y) |-> Raw(Val(y)[i])])
              ELSE Some([i \in DOMAIN Val(y) |->
                            standardize(Val(Val(ot2).params), Val(y)[i])])
    IN  [x |-> xt, y |-> yt, input_transform |-> it2, outcome_transform |-> ot2]

\* GPExperimentGuide.transform_data on (x, y), each None or Some(sequence).
\* The result carries the transforms as the call leaves them: train=True
\* refits the parameters, train=False leaves them and sets eval mode.
transform_data(it, ot, x, y, train) ==
    LET doX == x # None /\ it # None
        doY == y # None /\ ot # None
        it2 == IF ~doX THEN it
               ELSE Some([bounds |-> IF train THEN Some(fit_input(Val(x)))
                                     ELSE Val(it).bounds,
                          training |-> train])
        ot2 == IF ~doY THEN ot
               ELSE Some([params |-> IF train THEN Some(fit_outcome(Val(y)))
                                     ELSE Val(ot).params,
                          training |-> train])
        xt == IF x = None THEN None
              ELSE IF ~doX THEN Some([i \in DOMAIN Val(x) |-> Raw(Val(x)[i])])
              ELSE Some([i \in DOMAIN Val(x) |->
                            normalize(Val(Val(it2).bounds), Val(x)[i])])
        yt == IF y = None THEN None
              ELSE IF ~doY THEN Some([i \in DOMAIN Val(y) |-> Raw(Val(y)[i])])
              ELSE Some([i \in DOMAIN Val(y) |->
                            standardize(Val(Val(ot2).params), Val(y)[i])])
    IN  [x |-> xt, y |-> yt, input_transform |-> it2, outcome_transform |-> ot2]

\* GPExperimentGuide.untransform_data on x only (as suggest calls it)
untransform_data(it, x) ==
    IF it = None THEN [x |-> [i \in DOMAIN x |-> x[i][1] \div x[i][2]],
                       input_transform |-> it]
    ELSE [x |-> [i \in DOMAIN x |-> unnormalize(Val(Val(it).bounds), x[i])],
          input_transform |-> Some([Val(it) EXCEPT !.training = FALSE])]

\* record_data with the operands of concatenate swapped
record_data_prepend(data, new) == new \o data

\* GPExperimentGuide.record_data: torch.concatenate([self.data_x, x])
record_data(data, new) == data \o new

\* build_counters without the reset of n_suggest_calls
build_counters_keep_suggest ==
    [n_suggest_calls |-> n_suggest_calls, n_update_calls |-> 0]

\* GPExperimentGuide.build_counters
build_counters == [n_suggest_calls |-> 0, n_update_calls |-> 0]

\* GPExperimentGuide.build_transform: fresh, unfitted Normalize and Standardize
build_transform ==
    [input_transform |-> Some([bounds |-> None, training |-> TRUE]),
     outcome_transform |-> Some([params |-> None, training |-> TRUE])]

\* ------------------------------------------------------------ the last call
Call(op, args, raised, ret) ==
    [op |-> op, args |-> args, raised |-> raised, ret |-> ret,
     candidates |-> <<>>, evaluated |-> FALSE]

\* ------------------------------------------------------------------ __init__
\* GPExperimentGuide.__init__ and XANESExperimentGuide.__init__
InitGuide(configs) ==
    /\ config \in configs
    /\ model = 0
    /\ heap = << >>
    /\ acquisition_function = None
    /\ optimizer = None
    /\ data_x = <<>>
    /\ data_y = <<>>
    /\ input_transform = None
    /\ outcome_transform = None
    /\ n_suggest_calls = 0
    /\ n_update_calls = 0
    /\ acqf_weight_func = None
    /\ feature_projection_func = None
    /\ next_id = 1
    /\ trained_at = 0
    /\ built = FALSE
    /\ fit_at = 0
    /\ call = Call("__init__", <<>>, "", "None")

\* ---------------------------------------------------------------------- heap
\* the object identities the guide's attributes refer to
Refs(mdl, acqf) ==
    (IF mdl = 0 THEN {} ELSE {mdl})
    \cup (IF acqf = None THEN {} ELSE {Val(acqf).model})

\* hp with object id bound to dict, less the objects nothing refers to
\* (CPython frees an object when its last reference goes)
Store(hp, id, dict, refs) ==
    [i \in (DOMAIN hp \cup {id}) \cap refs |-> IF i = id THEN dict ELSE hp[i]]

\* --------------------------------------------------------------------- build
\* XANESExperimentGuide.create_model_object: the new model object's __dict__
create_model_object(x_data, y_data, cfg, projection, std) ==
    [train_inputs |-> x_data,
     train_targets |-> y_data,
     posterior_std |-> std,
     projection_function |-> IF cfg.projected THEN projection ELSE None]

\* XANESExperimentGuide.build_acquisition_function, past the assertion: a new
\* acquisition function object that holds a reference to the model, the
\* outcome transform's mean and std by value, and (with the hook) the
\* guide's current weighting function.
build_acquisition_function(cfg, id, mdl, ot, wf) ==
    Some([id |-> id,
          model |-> mdl,
          Y_mean |-> Val(Val(ot).params)[1],
          Y_std |-> Val(Val(ot).params)[2],
          weight_func |-> IF cfg.acquisition[1].hook THEN wf ELSE None,
          schedule_step |-> 0])

\* build_acquisition_function without the assertion
analytic_assertion_absent(cfg) == TRUE

\* the assertion of GPExperimentGuide.build_acquisition_function
analytic_assertion(cfg) ==
    cfg.acquisition[1].analytic => cfg.acquisition[2] = 1

\* GPExperimentGuide.get_bounds and build_optimizer (transform_data, train=False)
build_optimizer(cfg, it) ==
    LET b == Val(Val(it).bounds)
    IN  Some([bounds |-> << normalize(b, cfg.lower_bounds),
                            normalize(b, cfg.upper_bounds) >>,
              num_candidates |-> cfg.acquisition[2]])

\* build_feature_projection_function without its guard
projection_precondition_absent(x_train) == TRUE

\* the guard of XANESExperimentGuide.build_feature_projection_function
projection_precondition(x_train) == Len(x_train) >= MinProjectionPoints

\* GPExperimentGuide.build with XANESExperimentGuide.build_model.
\*   batch  x_train, y_train
\*   edge   whether scipy.signal.find_peaks finds the edge in the projection
\*          function's gradient (np.argmax of no peaks raises ValueError)
\*   std    the posterior std of the trained model
Build(batch, edge, std) ==
    LET ctr == build_counters
        bt == build_transform
        td == transform_data(bt.input_transform, bt.outcome_transform,
                             Some(Xs(batch)), Some(Ys(batch)), TRUE)
        x_train == Val(td.x)
        y_train == Val(td.y)
        projFails == config.projected /\
                     (~projection_precondition(x_train) \/ ~edge)
        proj == IF config.projected THEN Some([id |-> next_id])
                ELSE feature_projection_func
        id1 == IF config.projected THEN next_id + 1 ELSE next_id
        dict == create_model_object(x_train, y_train, config, proj, std)
        mdl == id1
        acqf == build_acquisition_function(config, id1 + 1, mdl,
                                           td.outcome_transform, acqf_weight_func)
        opt == build_optimizer(config, td.input_transform)
    IN
    /\ Len(data_x) + Len(batch) <= MaxData
    /\ n_suggest_calls' = ctr.n_suggest_calls
    /\ n_update_calls' = ctr.n_update_calls
    /\ UNCHANGED config
    /\ outcome_transform' = td.outcome_transform
    /\ IF projFails
       THEN \* build_model raised before train_model
            /\ input_transform' = td.input_transform
            /\ call' = Call("build", batch, "ValueError", "None")
            /\ UNCHANGED << model, heap, acquisition_function, optimizer, data_x,
                            data_y, feature_projection_func, next_id, trained_at,
                            built >>
       ELSE /\ feature_projection_func' = proj
            /\ model' = mdl
            /\ trained_at' = Len(data_x)
            /\ data_x' = record_data(data_x, x_train)
            /\ data_y' = record_data(data_y, y_train)
            /\ IF ~analytic_assertion(config)
               THEN \* build_acquisition_function raised
                    /\ input_transform' = td.input_transform
                    /\ next_id' = id1 + 1
                    /\ heap' = Store(heap, mdl, dict,
                                     Refs(mdl, acquisition_function))
                    /\ call' = Call("build", batch, "AssertionError", "None")
                    /\ UNCHANGED << acquisition_function, optimizer, built >>
               ELSE /\ acquisition_function' = acqf
                    /\ optimizer' = opt
                    /\ input_transform' =
                           Some([Val(td.input_transform) EXCEPT !.training = FALSE])
                    /\ next_id' = id1 + 2
                    /\ heap' = Store(heap, mdl, dict, Refs(mdl, acqf))
                    /\ built' = TRUE
                    /\ call' = Call("build", batch, "", "None")
    /\ fit_at' = Len(data_x)
    /\ UNCHANGED acqf_weight_func

BuildAction(batches, stds) ==
    \E batch \in batches, edge \in BOOLEAN, std \in stds :
        Build(batch, edge, std)

\* ------------------------------------------------------------------- suggest
\* What optimizer.maximize may return: num_candidates points of the
\* transformed domain, here all at one end of the optimizer's bounds.
Candidates(opt) ==
    { [i \in 1..opt.num_candidates |-> b] : b \in {opt.bounds[1], opt.bounds[2]} }

\* the increment as the first statement of suggest
count_suggest_first(n, raised) == n + 1

\* self.n_suggest_calls += 1, the statement after optimizer.maximize and
\* untransform_data: not reached when one of them raised
count_suggest(n, raised) == IF raised THEN n ELSE n + 1

\* GPExperimentGuide.suggest
suggest ==
    /\ n_suggest_calls' = count_suggest(n_suggest_calls, optimizer = None)
    /\ IF optimizer = None
       THEN \* self.optimizer.maximize on None
            /\ call' = Call("suggest", <<>>, "AttributeError", "None")
            /\ UNCHANGED input_transform
       ELSE \E candidate \in Candidates(Val(optimizer)) :
                LET ud == untransform_data(input_transform, candidate)
                IN  /\ input_transform' = ud.input_transform
                    /\ call' = [Call("suggest", <<>>, "", "candidate")
                                   EXCEPT !.candidates = ud.x]
    /\ UNCHANGED << config, model, heap, acquisition_function, optimizer, data_x,
                    data_y, outcome_transform, n_update_calls, acqf_weight_func,
                    feature_projection_func, next_id, trained_at, built, fit_at >>

\* suggest as a call of its own, a bounded number of times
Suggest == n_suggest_calls < MaxSuggest /\ suggest

\* -------------------------------------------------------------------- update
\* a model that holds the new observations only
condition_on_observations_replace(dict, x_data, y_data, std) ==
    [dict EXCEPT !.train_inputs = x_data, !.train_targets = y_data,
                 !.posterior_std = std]

\* model.condition_on_observations(x_data, y_data): a new model whose training
\* data is the old model's followed by the new observations
condition_on_observations(dict, x_data, y_data, std) ==
    [dict EXCEPT !.train_inputs = @ \o x_data, !.train_targets = @ \o y_data,
                 !.posterior_std = std]

\* self.model = new_model: the guide names the new object
install_model_rebind(mdl, hp, new_id, new_dict, acqf) ==
    [model |-> new_id, heap |-> Store(hp, new_id, new_dict, Refs(new_id, acqf))]

\* self.model.__dict__ = new_model.__dict__: the object self.model names takes
\* the new model's attributes; self.model keeps naming the same object.
install_model(mdl, hp, new_id, new_dict, acqf) ==
    [model |-> mdl, heap |-> Store(hp, mdl, new_dict, Refs(mdl, acqf))]

\* update calling build_acquisition_function: a new object per update
update_acquisition_function_rebuild(acqf, cfg, id) ==
    IF acqf # None
    THEN Some([Val(acqf) EXCEPT !.id = id, !.schedule_step = 0])
    ELSE acqf

\* hasattr(self.acquisition_function, 'update_hyperparams_following_schedule')
\* and the call: the existing acquisition function object is patched.
update_acquisition_function(acqf, cfg, id) ==
    IF acqf # None /\ cfg.acquisition[1].hook
    THEN Some([Val(acqf) EXCEPT !.schedule_step = @ + 1])
    ELSE acqf

\* the trigger with a modulo test: every N-th update builds
weight_func_trigger_multiple(cfg, n_updates) ==
    /\ cfg.n_updates_create_acqf_weight_func # None
    /\ n_updates % Val(cfg.n_updates_create_acqf_weight_func) = 0

\* the trigger with >= for ==: every update from the N-th on builds
weight_func_trigger_from(cfg, n_updates) ==
    /\ cfg.n_updates_create_acqf_weight_func # None
    /\ n_updates >= Val(cfg.n_updates_create_acqf_weight_func)

\* the trigger of XANESExperimentGuide.update
weight_func_trigger(cfg, n_updates) ==
    /\ cfg.n_updates_create_acqf_weight_func # None
    /\ n_updates = Val(cfg.n_updates_create_acqf_weight_func)

\* build_acqf_weight_function without the hasattr test
has_set_weight_func_untested(acqf, cfg) == acqf # None

\* hasattr(self.acquisition_function, 'set_weight_func')
has_set_weight_func(acqf, cfg) ==
    acqf # None /\ cfg.acquisition[1].hook

\* peak locations scipy.signal.find_peaks may report (normalized, fixed point)
PeakLocs == {One \div 2}
\* every point of the normalized domain, in units of 1/One
AllPeakLocs == 0..One

\* XANESExperimentGuide.update.
\*   batch  x_data, y_data
\*   peak   None when find_peaks reports no peak in the posterior mean's
\*          gradient (np.argmax then raises ValueError), else Some(location)
\*   std    the posterior std of the conditioned model
Update(batch, peak, std) ==
    LET td == transform_data(input_transform, outcome_transform,
                             Some(Xs(batch)), Some(Ys(batch)), FALSE)
        x_data == Val(td.x)
        y_data == Val(td.y)
    IN
    \* bounds: the rows recorded, and (below) one update on a guide that
    \* has no model
    /\ Len(data_x) + Len(batch) <= MaxData
    /\ input_transform' = td.input_transform
    /\ outcome_transform' = td.outcome_transform
    /\ data_x' = record_data(data_x, x_data)
    /\ data_y' = record_data(data_y, y_data)
    /\ UNCHANGED << config, optimizer, n_suggest_calls, feature_projection_func,
                    trained_at, built, fit_at >>
    /\ IF model = 0
       THEN \* self.model.condition_on_observations on None
            /\ data_x = <<>>
            /\ call' = Call("update", batch, "AttributeError", "None")
            /\ UNCHANGED << model, heap, acquisition_function, n_update_calls,
                            acqf_weight_func, next_id >>
       ELSE LET new_model == condition_on_observations(heap[model], x_data, y_data, std)
                im == install_model(model, heap, next_id, new_model,
                                    acquisition_function)
                acqf == update_acquisition_function(acquisition_function, config,
                                                    next_id)
                n == n_update_calls + 1
            IN  /\ model' = im.model
                /\ heap' = im.heap
                /\ n_update_calls' = n
                /\ IF ~weight_func_trigger(config, n)
                   THEN /\ acquisition_function' = acqf
                        /\ call' = Call("update", batch, "", "None")
                        /\ UNCHANGED << acqf_weight_func, next_id >>
                   ELSE IF ~has_set_weight_func(acqf, config)
                   THEN \* build_acqf_weight_function logs a warning and returns
                        /\ acqf_weight_func' = None
                        /\ acquisition_function' = acqf
                        /\ call' = Call("update", batch, "", "None")
                        /\ UNCHANGED next_id
                   ELSE IF peak = None
                   THEN \* build_acqf_weight_function raised
                        /\ acquisition_function' = acqf
                        /\ call' = Call("update", batch, "ValueError", "None")
                        /\ UNCHANGED << acqf_weight_func, next_id >>
                   ELSE LET wf == Some([id |-> next_id, peak_loc |-> Val(peak), peak_width |-> 1])
                        IN  /\ acqf_weight_func' = wf
                            /\ acquisition_function' =
                                   Some([Val(acqf) EXCEPT !.weight_func = wf])
                            /\ next_id' = next_id + 1
                            /\ call' = Call("update", batch, "", "None")

UpdateAction(batches, peaks, stds) ==
    \E batch \in batches, peak \in {None} \cup {Some(p) : p \in peaks},
       std \in stds :
        Update(batch, peak, std)

\* ------------------------------------------------------- weighting function
\* autobl.util.sigmoid(x, r, d): rises from 0 to 1 around d
sigmoid(x, d) == IF x < d THEN 0 ELSE IF x = d THEN One \div 2 ELSE One

\* autobl.util.gaussian(x, a, mu, sigma, c=0): a bump of height a at mu
gaussian(x, a, mu) ==
    LET dist == IF x >= mu THEN x - mu ELSE mu - x
    IN  IF dist = 0 THEN a * One ELSE IF dist = 1 THEN (a * One) \div 2 ELSE 0

\* the closure without its last statement, m = m * (1 - floor_value) +
\* floor_value
weight_func_unscaled(wf, cfg, x) ==
    ( sigmoid(x, wf.peak_loc - (16 * wf.peak_width) \div 10)
      + gaussian(x, cfg.acqf_weight_func_post_edge_gain,
                 wf.peak_loc + cfg.acqf_weight_func_post_edge_offset * wf.peak_width) )
    * One

\* the closure weight_func of build_acqf_weight_function, at a normalized x;
\* x, the peak location and the floor are in units of 1/One, the result in
\* units of 1/(One * One)
weight_func(wf, cfg, x) ==
    LET m == sigmoid(x, wf.peak_loc - (16 * wf.peak_width) \div 10)
             + gaussian(x, cfg.acqf_weight_func_post_edge_gain,
                        wf.peak_loc
                        + cfg.acqf_weight_func_post_edge_offset * wf.peak_width)
    IN  m * (One - cfg.acqf_weight_func_floor_value)
        + cfg.acqf_weight_func_floor_value * One

\* ------------------------------------------------------- stopping criterion
\* torch.linspace(0, 1, data_x.shape[0] * 5): the number of grid points
\* (bounded by MaxGrid) and the g-th point, in units of 1/One
GridLen(n_rows) == Min(n_rows * GridFactor, MaxGrid)
GridPoint(g, len) == IF len = 1 THEN 0 ELSE ((g - 1) * One) \div (len - 1)

\* get_posterior_mean_and_std on the grid: the std of the model (dict)
posterior_std(dict, len) == [g \in 1..len |-> dict.posterior_std[g]]

clip(v, lo, hi) == IF v < lo THEN lo ELSE IF v > hi THEN hi ELSE v

\* the weights w of check_max_uncertainty on the grid, in units of 1/(One*One)
weights(wf, cfg, len) ==
    [g \in 1..len |->
        IF wf # None
        THEN clip(weight_func(Val(wf), cfg, GridPoint(g, len)), 0, One * One)
        ELSE One * One]

\* check_max_uncertainty with <= for <
check_max_uncertainty_at_or_below(sigma, wf, cfg, t) ==
    LET w == [g \in DOMAIN sigma |->
                 IF wf # None
                 THEN clip(weight_func(Val(wf), cfg, GridPoint(g, Len(sigma))),
                           0, One * One)
                 ELSE One * One]
    IN  \A g \in DOMAIN sigma : sigma[g] * w[g] <= t

\* StoppingCriterion.check_max_uncertainty, given the posterior std sigma;
\* sigma * w and the threshold t are in units of 1/(One * One)
check_max_uncertainty(sigma, wf, cfg, t) ==
    LET w == weights(wf, cfg, Len(sigma))
        max_sigma == SeqMax([g \in DOMAIN sigma |-> sigma[g] * w[g]])
    IN  max_sigma < t

\* the early returns without the interval test
check_is_active_no_interval(sc, n_updates) ==
    /\ sc # None
    /\ ~(n_updates < Val(sc).n_updates_to_begin)

\* the early returns of StoppingCriterion.check: TRUE when check goes on to
\* dispatch on the method
check_is_active(sc, n_updates) ==
    /\ sc # None
    /\ ~(n_updates < Val(sc).n_updates_to_begin)
    /\ ~((n_updates - Val(sc).n_updates_to_begin) % Val(sc).n_check_interval # 0)

Bool(b) == IF b THEN "True" ELSE "False"

\* untransform_posterior through untransform_data's statements: the outcome
\* transform is put in eval mode
untransform_posterior_eval(ot) ==
    IF ot = None THEN ot ELSE Some([Val(ot) EXCEPT !.training = FALSE])

\* GPExperimentGuide.untransform_posterior: the outcome transform as the call
\* leaves it (outcome_transform.untransform_posterior reads it only)
untransform_posterior(ot) == ot

\* StoppingCriterion.check
Check ==
    LET sc == config.stopping_criterion_configs
        sigma == posterior_std(heap[model], GridLen(Len(data_x)))
    IN
    /\ outcome_transform' =
           IF check_is_active(sc, n_update_calls)
              /\ Val(sc).method = "max_uncertainty" /\ model # 0
           THEN untransform_posterior(outcome_transform)
           ELSE outcome_transform
    /\ IF ~check_is_active(sc, n_update_calls)
       THEN call' = Call("check", <<>>, "", "False")
       ELSE IF Val(sc).method # "max_uncertainty"
       THEN \* falls off the end of check
            call' = Call("check", <<>>, "", "None")
       ELSE IF model = 0
       THEN \* self.model.posterior on None
            call' = [Call("check", <<>>, "AttributeError", "None")
                        EXCEPT !.evaluated = TRUE]
       ELSE call' = [Call("check", <<>>, "",
                          Bool(check_max_uncertainty(sigma, acqf_weight_func, config,
                                                     Val(sc).threshold)))
                        EXCEPT !.evaluated = TRUE]
    /\ UNCHANGED << config, model, heap, acquisition_function, optimizer, data_x,
                    data_y, input_transform, n_suggest_calls,
                    n_update_calls, acqf_weight_func, feature_projection_func,
                    next_id, trained_at, built, fit_at >>

\* GPExperimentGuide.get_posterior_mean_and_std(x) as a public call
\* (transform=True, untransform=True): transform_data(x, None, train=False)
get_posterior_mean_and_std ==
    LET td == transform_data(input_transform, outcome_transform,
                             Some(<< config.lower_bounds >>), None, FALSE)
    IN
    /\ input_transform' = td.input_transform
    /\ outcome_transform' = IF model = 0 THEN outcome_transform
                            ELSE untransform_posterior(outcome_transform)
    /\ call' = IF model = 0
               THEN Call("get_posterior_mean_and_std", <<>>, "AttributeError", "None")
               ELSE Call("get_posterior_mean_and_std", <<>>, "", "mu, sigma")
    /\ UNCHANGED << config, model, heap, acquisition_function, optimizer, data_x,
                    data_y, n_suggest_calls, n_update_calls,
                    acqf_weight_func, feature_projection_func, next_id,
                    trained_at, built, fit_at >>

\* ------------------------------------------------------------ specification
\* no experiment is running: the guide is called directly
NoRun == [pc |-> "none"]

Init == InitGuide(Configs) /\ run = NoRun

Next ==
    \/ BuildAction(TrainBatches, UniformStds) /\ UNCHANGED run
    \/ Suggest /\ UNCHANGED run
    \/ UpdateAction(UpdateBatches, PeakLocs, UniformStds) /\ UNCHANGED run
    \/ Check /\ UNCHANGED run
    \/ get_posterior_mean_and_std /\ UNCHANGED run

Spec == Init /\ [][Next]_vars

\* the guide under the max_uncertainty criterion, with every posterior, built
\* on two points and updated with one point at a time; the calls are those
\* that write what check reads
InitStd == InitGuide(StdConfigs) /\ run = NoRun

NextStd ==
    \/ BuildAction({TrainBatch2}, StdProfiles) /\ UNCHANGED run
    \/ UpdateAction({BatchA}, PeakLocs, StdProfiles) /\ UNCHANGED run
    \/ Check /\ UNCHANGED run

SpecStd == InitStd /\ [][NextStd]_vars

\* the guide under every parameter of the weighting function and every peak
\* location the peak search may report
InitWeight == InitGuide(WeightConfigs) /\ run = NoRun

NextWeight ==
    \/ BuildAction({TrainBatch2}, UniformStds) /\ UNCHANGED run
    \/ UpdateAction({BatchA}, AllPeakLocs, UniformStds) /\ UNCHANGED run
    \/ Check /\ UNCHANGED run

SpecWeight == InitWeight /\ [][NextWeight]_vars

\* ============================================= SimulatedScanningExperiment
\* build_instrument(true_data_x, true_data_y): the spectrum the simulated
\* instrument holds, self.data_x and self.data_y of the experiment
true_data == TrainBatch4

\* torch.linspace(lo, hi, n) for n >= 2
linspace(lo, hi, n) == [k \in 1..n |-> lo + ((k - 1) * (hi - lo)) \div (n - 1)]

\* self.instrument.measure(x): the value of the spectrum at each x (every x
\* asked for here is a point of the spectrum)
measure(xs) ==
    [k \in DOMAIN xs |->
        (CHOOSE p \in {true_data[j] : j \in DOMAIN true_data} : p.x = xs[k]).y]

\* the arguments of run: n_initial_measurements, and n_target_measurements
\* which may be None
RunInitials == {2, 4}
RunTargets == {None} \cup {Some(t) : t \in 1..MaxData}

\* if n_target_measurements is None: n_target_measurements = len(self.data_x)
target(n_target_measurements) ==
    IF n_target_measurements = None THEN Len(true_data)
    ELSE Val(n_target_measurements)

\* a loop that runs one more iteration than the range holds
range_has_next_inclusive(n_initial, n_target, iterations) ==
    n_initial + iterations <= target(n_target)

\* for i in tqdm.trange(n_initial_measurements, n_target_measurements): there
\* is a next i after `iterations` iterations
range_has_next(n_initial, n_target, iterations) ==
    n_initial + iterations < target(n_target)

\* a test that takes everything but False as true
truthy_unless_false(ret) == ret # "False"

\* if self.guide.stopping_criterion.check(): the truth value of what check
\* returned (True, False or None)
truthy(ret) == ret = "True"

\* self.n_pts_measured += 1
count_measured_one(n, candidates) == n + 1

\* self.n_pts_measured += len(candidates)
count_measured(n, candidates) == n + Len(candidates)

\* SimulatedScanningExperiment.__init__ and the call of run:
\* n_pts_measured = 0, guide = None
InitExperiment ==
    \E n_initial \in RunInitials, n_target \in RunTargets :
        \* bound: the rows the guide records in this run
        /\ n_initial + config.acquisition[2] *
               (IF target(n_target) > n_initial THEN target(n_target) - n_initial
                ELSE 0) <= MaxData
        /\ run = [pc |-> "start",
                  n_initial_measurements |-> n_initial,
                  n_target_measurements |-> n_target,
                  n_pts_measured |-> 0,
                  iterations |-> 0,
                  candidates |-> <<>>,
                  y_new |-> <<>>,
                  n_measured |-> 0,      \* history: candidates measured
                  n_save_analysis |-> 0]

\* where run goes when the loop is reached or an iteration has ended
after_iteration(r, stop) ==
    IF ~stop /\ range_has_next(r.n_initial_measurements, r.n_target_measurements,
                               r.iterations)
    THEN "suggest" ELSE "save"

\* run up to the loop: take_initial_measurements, initialize_guide (a new
\* guide, built on the initial measurements), initialize_analyzer
RunStart ==
    LET n == run.n_initial_measurements
        x_init == linspace(true_data[1].x, true_data[Len(true_data)].x, n)
        y_init == measure(x_init)
        batch == [k \in 1..n |-> Pt(x_init[k], y_init[k])]
    IN
    /\ run.pc = "start"
    /\ \E edge \in BOOLEAN, std \in UniformStds : Build(batch, edge, std)
    /\ run' = [run EXCEPT !.n_pts_measured = @ + n,
                          !.pc = IF call'.raised # "" THEN "raised"
                                 ELSE after_iteration(run, FALSE)]

\* candidates = self.guide.suggest().double(); update_candidate_list
RunSuggest ==
    /\ run.pc = "suggest"
    /\ suggest
    /\ run' = [run EXCEPT !.iterations = @ + 1,
                          !.candidates = call'.candidates,
                          !.pc = IF call'.raised # "" THEN "raised" ELSE "measure"]

\* y_new = self.instrument.measure(candidates).unsqueeze(-1)
RunMeasure ==
    /\ run.pc = "measure"
    /\ run' = [run EXCEPT !.y_new = measure(run.candidates),
                          !.n_measured = @ + Len(run.candidates),
                          !.pc = "update"]
    /\ UNCHANGED guide_vars

\* self.guide.update(candidates, y_new); self.n_pts_measured += len(candidates)
\* and the analyzer's bookkeeping
RunUpdate ==
    LET batch == [k \in DOMAIN run.candidates |->
                     Pt(run.candidates[k], run.y_new[k])]
    IN
    /\ run.pc = "update"
    /\ \E peak \in {None} \cup {Some(p) : p \in PeakLocs}, std \in UniformStds :
           Update(batch, peak, std)
    /\ run' = IF call'.raised # "" THEN [run EXCEPT !.pc = "raised"]
              ELSE [run EXCEPT !.n_pts_measured =
                                   count_measured(@, run.candidates),
                               !.pc = "check"]

\* if self.guide.stopping_criterion.check(): break
RunCheck ==
    /\ run.pc = "check"
    /\ Check
    /\ run' = [run EXCEPT !.pc = IF call'.raised # "" THEN "raised"
                                 ELSE after_iteration(run, truthy(call'.ret))]

\* self.analyzer.save_analysis()
RunSave ==
    /\ run.pc = "save"
    /\ run' = [run EXCEPT !.n_save_analysis = @ + 1, !.pc = "done"]
    /\ UNCHANGED guide_vars

\* one run of an experiment, under every configuration of the guide
InitRun == InitGuide(Configs) /\ InitExperiment

NextRun ==
    \/ RunStart
    \/ RunSuggest
    \/ RunMeasure
    \/ RunUpdate
    \/ RunCheck
    \/ RunSave

SpecRun == InitRun /\ [][NextRun]_vars

\* ================================================================ properties
\* A step of a behaviour is the call named by call'.op; the call just
\* returned (or raised) is the one named by call.op.

IsPrefix(s, t) == Len(s) <= Len(t) /\ SubSeq(t, 1, Len(s)) = s

\* the configuration asks for a weighting function and the acquisition
\* function type has set_weight_func
C1_Configured ==
    /\ config.n_updates_create_acqf_weight_func # None
    /\ config.acquisition[1].hook

\* the step is update call number N of its build session
C1_IsUpdateN ==
    /\ call'.op = "update"
    /\ n_update_calls' = n_update_calls + 1
    /\ n_update_calls' = Val(config.n_updates_create_acqf_weight_func)

\* C1 as stated: with trigger N and an acquisition function that has the
\* hook, the weighting function is null while fewer than N updates were made
\* since build and non-null from update call N on.
C1_NullBeforeSetFromN ==
    (C1_Configured /\ has_set_weight_func(acquisition_function, config)) =>
        LET N == Val(config.n_updates_create_acqf_weight_func)
        IN  /\ n_update_calls < N => acqf_weight_func = None
            /\ n_update_calls >= N => acqf_weight_func # None

\* C1 amended: with trigger N and an acquisition function that has the hook,
\* build and every update call other than number N leave the weighting
\* function as it was (null on a new guide); update call N either installs
\* a new weighting function or, when the peak search finds no peak, raises
\* and leaves it as it was.
C1_BuiltOnlyAtUpdateN ==
    [][ C1_Configured =>
            IF C1_IsUpdateN /\ acquisition_function # None
            THEN \/ /\ call'.raised = ""
                    /\ acqf_weight_func' # None
                    /\ acqf_weight_func' # acqf_weight_func
                    /\ Val(acquisition_function').weight_func = acqf_weight_func'
                 \/ /\ call'.raised = "ValueError"
                    /\ acqf_weight_func' = acqf_weight_func
            ELSE acqf_weight_func' = acqf_weight_func ]_vars

\* an update after number N has returned and the weighting function stands
C1_Witness ==
    /\ C1_Configured
    /\ call.op = "update"
    /\ call.raised = ""
    /\ n_update_calls > Val(config.n_updates_create_acqf_weight_func)
    /\ acqf_weight_func # None

\* C2: check returns False without evaluating the posterior condition when
\* there is no stopping configuration, or n_update_calls < n_updates_to_begin,
\* or n_update_calls - n_updates_to_begin is no multiple of n_check_interval;
\* the condition is evaluated only at counts begin + k * interval, k >= 0.
C2_GatedCheck ==
    call.op = "check" =>
        LET sc == config.stopping_criterion_configs
            onSchedule ==
                \E k \in 0..n_update_calls :
                    n_update_calls =
                        Val(sc).n_updates_to_begin + k * Val(sc).n_check_interval
        IN  IF sc = None
            THEN call.ret = "False" /\ ~call.evaluated /\ call.raised = ""
            ELSE /\ ~onSchedule =>
                        call.ret = "False" /\ ~call.evaluated /\ call.raised = ""
                 /\ call.evaluated => onSchedule

\* the condition was evaluated at a count past the first scheduled one
C2_Witness ==
    /\ call.op = "check"
    /\ call.evaluated
    /\ n_update_calls > Val(config.stopping_criterion_configs).n_updates_to_begin
    /\ Val(config.stopping_criterion_configs).n_check_interval > 1

\* the weight check_max_uncertainty gives grid point g
C3_Weight(g, len) ==
    IF acqf_weight_func = None THEN One * One
    ELSE LET v == weight_func(Val(acqf_weight_func), config, GridPoint(g, len))
         IN  IF v < 0 THEN 0 ELSE IF v > One * One THEN One * One ELSE v

\* every grid point's posterior std times weight is below the threshold
C3_Below ==
    LET len == GridLen(Len(data_x))
    IN  \A g \in 1..len :
            heap[model].posterior_std[g] * C3_Weight(g, len)
                < Val(config.stopping_criterion_configs).threshold

\* C3: where the check is active and the method is max_uncertainty, check
\* returns True iff the maximum over the grid of posterior std times weight
\* is strictly below the threshold, the weight being the weighting function
\* clipped to [0, 1], or 1 when there is none; else it returns False.
C3_TrueIffBelowThreshold ==
    ( /\ call.op = "check"
      /\ check_is_active(config.stopping_criterion_configs, n_update_calls)
      /\ Val(config.stopping_criterion_configs).method = "max_uncertainty"
      /\ model # 0 ) =>
        /\ call.raised = ""
        /\ C3_Below => call.ret = "True"
        /\ ~C3_Below => call.ret = "False"

\* check returned True where the unweighted std is not below the threshold
C3_Witness ==
    /\ call.op = "check"
    /\ call.ret = "True"
    /\ acqf_weight_func # None
    /\ \E g \in 1..GridLen(Len(data_x)) :
           heap[model].posterior_std[g] * One * One
               >= Val(config.stopping_criterion_configs).threshold

\* C4: the counters decrease only in build, which zeroes both; a successful
\* suggest adds 1 to n_suggest_calls and leaves n_update_calls; a successful
\* update adds 1 to n_update_calls and leaves n_suggest_calls.
C4_Counters ==
    [][ /\ (n_suggest_calls' < n_suggest_calls \/ n_update_calls' < n_update_calls)
            => call'.op = "build"
        /\ call'.op = "build" => n_suggest_calls' = 0 /\ n_update_calls' = 0
        /\ (call'.op = "suggest" /\ call'.raised = "")
            => /\ n_suggest_calls' = n_suggest_calls + 1
               /\ n_update_calls' = n_update_calls
        /\ (call'.op = "update" /\ call'.raised = "")
            => /\ n_update_calls' = n_update_calls + 1
               /\ n_suggest_calls' = n_suggest_calls
        /\ call'.op \in {"check", "get_posterior_mean_and_std"}
            => /\ n_update_calls' = n_update_calls
               /\ n_suggest_calls' = n_suggest_calls ]_vars

\* a second update returned after a suggest
C4_Witness ==
    /\ call.op = "update"
    /\ call.raised = ""
    /\ n_update_calls = 2
    /\ n_suggest_calls = 1

\* C5: the record is append-only: an update appends its transformed batch
\* at the end, in order; no call removes or reorders recorded rows; data_x
\* and data_y have the same number of rows.
C5_AppendOnly ==
    [][ /\ IsPrefix(data_x, data_x')
        /\ IsPrefix(data_y, data_y')
        /\ Len(data_x') = Len(data_y')
        /\ call'.op = "update" =>
              LET batch == call'.args
                  n == Len(data_x)
              IN  /\ Len(data_x') = n + Len(batch)
                  /\ \A i \in DOMAIN batch :
                        /\ data_x'[n + i] =
                              IF input_transform = None THEN << batch[i].x, 1 >>
                              ELSE LET b == Val(Val(input_transform).bounds)
                                   IN  << batch[i].x - b[1], b[2] - b[1] >>
                        /\ data_y'[n + i] =
                              IF outcome_transform = None THEN << batch[i].y, 1 >>
                              ELSE LET ms == Val(Val(outcome_transform).params)
                                   IN  << batch[i].y - ms[1], ms[2] >> ]_vars

\* a two-row batch was appended to a record that held an earlier update's row
C5_Witness ==
    /\ call.op = "update"
    /\ call.raised = ""
    /\ Len(call.args) = 2
    /\ n_update_calls = 2
    /\ Len(data_x) >= 5

\* the rows of the record from row number first + 1 on
RowsFrom(data, first) == SubSeq(data, first + 1, Len(data))

\* C6: the model the acquisition function scores against is the guide's
\* current model, conditioned on the data of the last training and of every
\* update since; update leaves the guide's model the same object and adds
\* its batch to that object's data.
C6_CurrentModel ==
    [][ /\ acquisition_function' # None =>
              /\ Val(acquisition_function').model = model'
              /\ heap'[model'].train_inputs = RowsFrom(data_x', trained_at')
              /\ heap'[model'].train_targets = RowsFrom(data_y', trained_at')
        /\ (call'.op = "update" /\ model # 0) =>
              /\ model' = model
              /\ heap'[model'].train_inputs =
                     heap[model].train_inputs \o RowsFrom(data_x', Len(data_x))
              /\ heap'[model'].train_targets =
                     heap[model].train_targets \o RowsFrom(data_y', Len(data_y)) ]_vars

\* a second update returned on a guide with an acquisition function
C6_Witness ==
    /\ call.op = "update"
    /\ call.raised = ""
    /\ n_update_calls = 2
    /\ acquisition_function # None
    /\ Len(heap[Val(acquisition_function).model].train_inputs) >= 4

\* C7 as stated: an update that returns leaves a newly constructed
\* acquisition function object in place of the one it found.
C7_RebuiltByUpdate ==
    [][ (call'.op = "update" /\ call'.raised = "" /\ acquisition_function # None) =>
            /\ acquisition_function' # None
            /\ Val(acquisition_function').id # Val(acquisition_function).id ]_vars

\* C7 amended: only a build that returns constructs an acquisition function;
\* update keeps the object it found, which scores against the conditioned
\* model through its reference, and patches it: the schedule advances when
\* the object has one, and a weighting function built by this update is
\* installed with set_weight_func.
C7_PatchedByUpdate ==
    [][ /\ ( /\ acquisition_function' # None
             /\ \/ acquisition_function = None
                \/ Val(acquisition_function').id # Val(acquisition_function).id )
            => call'.op = "build" /\ call'.raised = ""
        /\ (call'.op = "update" /\ acquisition_function # None) =>
              LET old == Val(acquisition_function)
                  new == Val(acquisition_function')
              IN  /\ acquisition_function' # None
                  /\ new.id = old.id
                  /\ new.model = model'
                  /\ new.Y_mean = old.Y_mean /\ new.Y_std = old.Y_std
                  /\ new.schedule_step =
                         IF config.acquisition[1].hook THEN old.schedule_step + 1
                         ELSE old.schedule_step
                  /\ new.weight_func =
                         IF acqf_weight_func' # acqf_weight_func
                         THEN acqf_weight_func' ELSE old.weight_func ]_vars

\* the update that built the weighting function patched the acquisition
\* function that build had constructed
C7_Witness ==
    /\ call.op = "update"
    /\ call.raised = ""
    /\ acquisition_function # None
    /\ acqf_weight_func # None
    /\ Val(acquisition_function).weight_func = acqf_weight_func
    /\ Val(acquisition_function).schedule_step >= 1

\* update's conditioning of a model on a batch, under the transforms as
\* they are
C8_Update(dict, batch) ==
    LET td == transform_data(input_transform, outcome_transform,
                             Some(Xs(batch)), Some(Ys(batch)), FALSE)
    IN  condition_on_observations(dict, Val(td.x), Val(td.y), dict.posterior_std)

\* the data set a model is conditioned on
C8_DataSet(dict) ==
    { << dict.train_inputs[i], dict.train_targets[i] >> :
          i \in DOMAIN dict.train_inputs }

\* a model less the last n rows of its data
C8_Less(dict, n) ==
    [dict EXCEPT !.train_inputs = SubSeq(@, 1, Len(@) - n),
                 !.train_targets = SubSeq(@, 1, Len(@) - n)]

C9_Bounds(it) == IF it = None THEN None ELSE Val(it).bounds
C9_Params(ot) == IF ot = None THEN None ELSE Val(ot).params

C10_SuggestBeforeBuild ==
    [][ (call'.op = "suggest" /\ ~built) =>
            /\ call'.raised # ""
            /\ call'.ret = "None"
            /\ call'.candidates = <<>>
            /\ n_suggest_calls' = n_suggest_calls ]_vars

\* suggest raised on a guide whose only build raised after training the model
C10_Witness ==
    /\ call.op = "suggest"
    /\ call.raised = "AttributeError"
    /\ ~built
    /\ model # 0

\* C11 as stated: once the weighting function is non-null no call replaces
\* it or resets it to null.
C11_Immutable ==
    [][ acqf_weight_func # None => acqf_weight_func' = acqf_weight_func ]_vars

\* C11 amended: once the weighting function is non-null no call resets it
\* to null, and the only call that replaces it is update call number N,
\* which a session that has built it reaches again only after a build has
\* reset the counters; suggest, check, build and every other update leave it.
C11_ReplacedOnlyAtUpdateN ==
    [][ acqf_weight_func # None =>
            /\ acqf_weight_func' # None
            /\ acqf_weight_func' # acqf_weight_func =>
                  /\ call'.op = "update"
                  /\ call'.raised = ""
                  /\ n_update_calls' = n_update_calls + 1
                  /\ n_update_calls' = Val(config.n_updates_create_acqf_weight_func)
                  /\ Val(acqf_weight_func').id > Val(acquisition_function').id
                  /\ Val(acquisition_function').weight_func = acqf_weight_func' ]_vars

\* a build returned on a guide that had built its weighting function, and
\* installed that function in the new acquisition function
C11_Witness ==
    /\ call.op = "build"
    /\ call.raised = ""
    /\ acqf_weight_func # None
    /\ Val(acquisition_function).weight_func = acqf_weight_func
    /\ Val(acquisition_function).id > Val(acqf_weight_func).id

\* C12: with an analytic acquisition function type and num_candidates other
\* than 1, build raises and installs neither an acquisition function nor an
\* optimizer; with num_candidates = 1 the assertion never raises.
C12_AnalyticNeedsOneCandidate ==
    [][ call'.op = "build" =>
            IF config.acquisition[1].analytic /\ config.acquisition[2] # 1
            THEN /\ call'.raised \in {"AssertionError", "ValueError"}
                 /\ call'.raised = "ValueError" => config.projected /\ model' = model
                 /\ acquisition_function' = acquisition_function
                 /\ optimizer' = optimizer
                 /\ acquisition_function' = None
                 /\ optimizer' = None
                 /\ ~built'
            ELSE call'.raised # "AssertionError" ]_vars

\* build raised at the assertion, after it had trained the model
C12_Witness ==
    /\ call.op = "build"
    /\ call.raised = "AssertionError"
    /\ config.acquisition[1].analytic
    /\ config.acquisition[2] = 2
    /\ model # 0
    /\ acquisition_function = None
    /\ optimizer = None

\* C13 as stated: with a projected model, a build on fewer than 4 points
\* raises and leaves the projection function unset.
C13_UnsetAfterFailedBuild ==
    (call.op = "build" /\ config.projected /\ Len(call.args) < 4) =>
        /\ call.raised = "ValueError"
        /\ feature_projection_func = None

\* C13 amended: the projection function changes only in a build with a
\* projected model; such a build on fewer than 4 points raises before it
\* trains a model or records data and leaves the projection function as it
\* was: unset, or the function an earlier build on the guide had built.
C13_ProjectionOnlyInBuild ==
    [][ /\ feature_projection_func' # feature_projection_func =>
              /\ call'.op = "build"
              /\ config.projected
              /\ Len(call'.args) >= 4
              /\ feature_projection_func' # None
        /\ ~config.projected => feature_projection_func' = None
        /\ (call'.op = "build" /\ config.projected /\ Len(call'.args) < 4) =>
              /\ call'.raised = "ValueError"
              /\ model' = model
              /\ heap' = heap
              /\ trained_at' = trained_at
              /\ data_x' = data_x
              /\ data_y' = data_y
              /\ feature_projection_func' = feature_projection_func ]_vars

\* a build on two points raised on a guide that an earlier build on four
\* points had given a projection function
C13_Witness ==
    /\ call.op = "build"
    /\ call.raised = "ValueError"
    /\ config.projected
    /\ Len(call.args) < 4
    /\ feature_projection_func # None
    /\ model # 0

\* C14: when the acquisition function type has no set_weight_func, the
\* update whose count equals the trigger returns normally, records its batch
\* and increments n_update_calls; the weighting function is null in every
\* state, and the stopping criterion weighs the posterior std by 1.
C14_NoHookNoWeight ==
    [][ ~config.acquisition[1].hook =>
            /\ acqf_weight_func' = None
            /\ ( /\ call'.op = "update"
                 /\ model # 0
                 /\ config.n_updates_create_acqf_weight_func # None
                 /\ n_update_calls + 1 = Val(config.n_updates_create_acqf_weight_func) )
                => /\ call'.raised = ""
                   /\ n_update_calls' = n_update_calls + 1
                   /\ Len(data_x') = Len(data_x) + Len(call'.args)
                   /\ Len(data_y') = Len(data_y) + Len(call'.args)
                   /\ acquisition_function' = acquisition_function
            /\ (call'.op = "check" /\ call'.evaluated) =>
                   /\ call'.raised = ""
                   /\ call'.ret = "True" <=>
                          \A g \in 1..GridLen(Len(data_x)) :
                              heap[model].posterior_std[g] * One * One
                                  < Val(config.stopping_criterion_configs).threshold ]_vars

\* the stopping condition was evaluated after the update at the trigger
\* count, on a guide whose acquisition function has no set_weight_func
C14_Witness ==
    /\ ~config.acquisition[1].hook
    /\ config.n_updates_create_acqf_weight_func # None
    /\ call.op = "check"
    /\ call.evaluated
    /\ n_update_calls >= Val(config.n_updates_create_acqf_weight_func)
    /\ acquisition_function # None
    /\ acqf_weight_func = None

\* the points of the normalized input domain, in units of 1/One
C15_Domain == 0..One

\* C15 as stated: at every point of the normalized domain the weighting
\* function's value is in [floor_value, 1].
C15_InFloorToOne ==
    acqf_weight_func # None =>
        \A x \in C15_Domain :
            LET w == weight_func(Val(acqf_weight_func), config, x)
            IN  /\ config.acqf_weight_func_floor_value * One <= w
                /\ w <= One * One

\* C15 amended: at every point of the normalized domain the weighting
\* function's value is in [floor_value, floor_value + (1 + gain) *
\* (1 - floor_value)], for 0 <= floor_value <= 1 and gain >= 0: at most 1
\* when the gain is 0.
C15_InFloorToGain ==
    acqf_weight_func # None =>
        \A x \in C15_Domain :
            LET w == weight_func(Val(acqf_weight_func), config, x)
                floor == config.acqf_weight_func_floor_value
                gain == config.acqf_weight_func_post_edge_gain
            IN  /\ floor * One <= w
                /\ w <= floor * One + (One + gain * One) * (One - floor)
                /\ gain = 0 => w <= One * One

\* a weighting function with a floor below 1 whose value exceeds 1 somewhere
C15_Witness ==
    /\ acqf_weight_func # None
    /\ config.acqf_weight_func_floor_value > 0
    /\ config.acqf_weight_func_floor_value < One
    /\ \E x \in C15_Domain :
           weight_func(Val(acqf_weight_func), config, x) > One * One
    /\ \E x \in C15_Domain :
           weight_func(Val(acqf_weight_func), config, x)
               = config.acqf_weight_func_floor_value * One

\* C16: in every state after a successful build, also after a second build
\* on the guide and after any number of updates, the points the model is
\* conditioned on are exactly the accumulated record (data_x, data_y).
C16_ModelDataIsRecord ==
    built =>
        /\ heap[model].train_inputs = data_x
        /\ heap[model].train_targets = data_y

\* C17: check changes neither counter, nor the record, the model, the
\* weighting function, the transforms or the configuration, and a check
\* that follows a check returns what that one returned.
C17_CheckReadOnly ==
    [][ call'.op = "check" =>
            /\ UNCHANGED << n_suggest_calls, n_update_calls, data_x, data_y,
                            model, heap, acqf_weight_func, input_transform,
                            outcome_transform, config, acquisition_function,
                            optimizer, feature_projection_func >>
            /\ call.op = "check" =>
                  /\ call'.ret = call.ret
                  /\ call'.raised = call.raised ]_vars

\* the stopping condition was evaluated on a guide whose outcome transform
\* was still in train mode (no update since build)
C17_Witness ==
    /\ call.op = "check"
    /\ call.evaluated
    /\ call.raised = ""
    /\ outcome_transform # None
    /\ Val(outcome_transform).training


\* max(0, n_target_measurements - n_initial_measurements), the length of the
\* loop's range
C18_Limit ==
    IF target(run.n_target_measurements) > run.n_initial_measurements
    THEN target(run.n_target_measurements) - run.n_initial_measurements
    ELSE 0

\* one step of run: the call it makes, where it goes next, and what it
\* leaves alone
C18_Step ==
    /\ run.pc = "start" =>
           /\ call'.op = "build"
           /\ run'.pc \in {"suggest", "save", "raised"}
    /\ run.pc = "suggest" =>
           /\ call'.op = "suggest"
           /\ run'.pc \in {"measure", "raised"}
           /\ run'.iterations = run.iterations + 1
    /\ run.pc = "measure" =>
           /\ run'.pc = "update"
           /\ UNCHANGED guide_vars
    /\ run.pc = "update" =>
           /\ call'.op = "update"
           /\ call'.args = [k \in DOMAIN run.candidates |->
                               Pt(run.candidates[k], run.y_new[k])]
           /\ run'.pc \in {"check", "raised"}
    /\ run.pc = "check" =>
           /\ call'.op = "check"
           /\ run'.pc \in {"suggest", "save", "raised"}
    \* a step raised exactly when run is abandoned
    /\ (run'.pc = "raised") = (run.pc \notin {"measure", "save"} /\ call'.raised # "")
    \* the loop goes on exactly when check was not true and the range is not
    \* used up
    /\ run.pc \in {"start", "check"} /\ run'.pc # "raised" =>
           (run'.pc = "save") =
               (call'.ret = "True" \/ run.iterations = C18_Limit)
    /\ run.pc # "suggest" => run'.iterations = run.iterations
    \* after the loop: save_analysis and nothing else
    /\ run.pc = "save" =>
           /\ run'.pc = "done"
           /\ run'.n_save_analysis = run.n_save_analysis + 1
           /\ UNCHANGED guide_vars
    /\ run.pc # "save" => run'.n_save_analysis = run.n_save_analysis
    /\ run'.pc = "done" => run'.n_save_analysis = 1
    /\ run'.iterations <= C18_Limit

\* the number of steps run can still take, at most: 0 when it has returned
\* or raised
C18_StepsLeft(r) ==
    LET left == (IF target(r.n_target_measurements) > r.n_initial_measurements
                 THEN target(r.n_target_measurements) - r.n_initial_measurements
                 ELSE 0) - r.iterations
    IN  CASE r.pc \in {"done", "raised"} -> 0
          [] r.pc = "save" -> 1
          [] r.pc = "suggest" -> 2 + 4 * left
          [] r.pc = "check" -> 3 + 4 * left
          [] r.pc = "update" -> 4 + 4 * left
          [] r.pc = "measure" -> 5 + 4 * left
          [] r.pc = "start" -> 6 + 4 * left

\* C18: every iteration of run's loop is suggest, measure, update, check in
\* that order; the loop ends at the first check that returns True or after
\* max(0, n_target_measurements - n_initial_measurements) iterations; after
\* it only save_analysis runs, once; and run comes to an end: every step
\* lowers a bound on the steps left, which is never negative.
C18_LoopOrderAndEnd ==
    [][ /\ C18_Step
        /\ C18_StepsLeft(run') < C18_StepsLeft(run)
        /\ C18_StepsLeft(run') >= 0 ]_vars

\* a run that check ended at its second iteration, before the range was
\* used up, and that has saved its analysis
C18_Witness ==
    /\ run.pc = "done"
    /\ run.iterations = 2
    /\ run.iterations < C18_Limit
    /\ call.op = "check" /\ call.ret = "True"
    /\ n_suggest_calls = 2 /\ n_update_calls = 2
    /\ run.n_save_analysis = 1


\* run is at a stopping check: about to make it, or it has just returned
C19_AtCheck == run.pc = "check" \/ (call.op = "check" /\ run.pc # "raised")

C20_Unrecognized ==
    /\ config.stopping_criterion_configs # None
    /\ Val(config.stopping_criterion_configs).method # "max_uncertainty"

\* the update count passes the warm-up and the interval gate
C20_PassesGate ==
    LET sc == Val(config.stopping_criterion_configs)
    IN  /\ n_update_calls >= sc.n_updates_to_begin
        /\ (n_update_calls - sc.n_updates_to_begin) % sc.n_check_interval = 0

\* C20: under an unrecognized stopping method, check returns None at an
\* update count that passes the gate and False at a gated count, never True
\* and without raising; run takes neither as a stop, so a run that reaches
\* save_analysis has made all the iterations of its range.
C20_NoneIsNotStopped ==
    C20_Unrecognized =>
        /\ call.op = "check" =>
               /\ call.raised = ""
               /\ call.ret = IF C20_PassesGate THEN "None" ELSE "False"
        /\ run.pc \in {"save", "done"} => run.iterations = C18_Limit

\* a run of three iterations under an unrecognized method, checked at
\* every second update: its last check returned None and it went on to
\* save_analysis
C20_Witness ==
    /\ C20_Unrecognized
    /\ Val(config.stopping_criterion_configs).n_check_interval = 2
    /\ run.pc = "done"
    /\ run.iterations = 3
    /\ C18_Limit = 3
    /\ call.op = "check" /\ call.ret = "None"

====
